---- MODULE Spec2Model ----
(***************************************************************************)
(* Model of the step ledger of src/index.ts: the two server classes        *)
(* JiminySequentialThinkingServer (category = phase 0|1|2, logging toggle) *)
(* and SequentialEthicalThinkingServer (category = ethicalPhase, aggregate *)
(* judgment, promptForNext).  One tool call is one atomic action.          *)
(***************************************************************************)
EXTENDS Integers, Sequences, FiniteSets, TLC

\* ------------------------------------------------------------------------
\* Bounds
\* ------------------------------------------------------------------------
\* thoughtHistory is explored up to this length
MaxHistory == 2
\* a payload of the rejection grid has at most this many bad required fields
MaxBadFields == 2
\* at most this many requests wait for the dispatcher at once
MaxPending == 2
\* thoughtHistory is explored up to this length where the judgment is checked
MaxJudgmentHistory == 3
\* thoughtHistory is explored up to this length where the toggle is varied
MaxLoggingHistory == 2
\* thoughtHistory is explored up to this length where the optional fields
\* are varied
MaxOptionalHistory == 2
\* thoughtHistory is explored up to this length where branches are filed
MaxBranchHistory == 3
\* thoughtHistory is explored up to this length where the tool name is varied
MaxToolHistory == 3

\* ------------------------------------------------------------------------
\* JavaScript values that a JSON payload can carry (of the objects as field
\* values, only one without a primitive value).  Every value has the same
\* three fields.
\* ------------------------------------------------------------------------
Undefined == [t |-> "undefined", n |-> 0, s |-> ""]
Null == [t |-> "null", n |-> 0, s |-> ""]
Num(k) == [t |-> "number", n |-> k, s |-> ""]
Str(x) == [t |-> "string", n |-> 0, s |-> x]
Bool(b) == [t |-> "boolean", n |-> (IF b THEN 1 ELSE 0), s |-> ""]
\* an object that has no primitive value, such as {"toString": 1}
NoPrimitive == [t |-> "object", n |-> 0, s |-> ""]

\* ToString(v) and ToPropertyKey(v) throw a TypeError for such a value
ConversionThrows(v) == v.t = "object"

\* typeof v
TypeOf(v) == IF v.t = "null" THEN "object" ELSE v.t

\* ToBoolean(v), as used by !v, v && w and v ? a : b
Truthy(v) ==
  CASE v.t = "undefined" -> FALSE
    [] v.t = "null" -> FALSE
    [] v.t = "boolean" -> v.n = 1
    [] v.t = "number" -> v.n # 0
    [] v.t = "string" -> v.s # ""
    [] OTHER -> TRUE

\* Number::toString for the integers of the model
Digit(d) ==
  CASE d = 0 -> "0" [] d = 1 -> "1" [] d = 2 -> "2" [] d = 3 -> "3"
    [] d = 4 -> "4" [] d = 5 -> "5" [] d = 6 -> "6" [] d = 7 -> "7"
    [] d = 8 -> "8" [] OTHER -> "9"

\* ToPropertyKey(v): the string under which obj[v] is looked up
ToPropertyKey(v) ==
  CASE v.t = "string" -> v.s
    [] v.t = "number" -> Digit(v.n)
    [] v.t = "boolean" -> (IF v.n = 1 THEN "true" ELSE "false")
    [] OTHER -> v.t

\* ------------------------------------------------------------------------
\* Payloads: request.params.arguments.  A payload is a primitive (f holds no
\* field) or an object (t = "object") with the fields f; an absent field
\* reads as Undefined.
\* ------------------------------------------------------------------------
FieldNames ==
  {"thought", "thoughtNumber", "totalThoughts", "nextThoughtNeeded",
   "phase", "ethicalPhase", "isRevision", "revisesThought",
   "branchFromThought", "branchId", "needsMoreThoughts", "promptForNext"}

NoFields == [k \in FieldNames |-> Undefined]

Obj(f) == [t |-> "object", f |-> f]
Prim(v) == [t |-> v.t, f |-> NoFields]

\* the name of the category field of each server
CategoryField(srv) == IF srv = "jiminy" THEN "phase" ELSE "ethicalPhase"

\* ------------------------------------------------------------------------
\* Error messages
\* ------------------------------------------------------------------------
MsgThought == "Invalid thought: must be a string"
MsgThoughtNumber == "Invalid thoughtNumber: must be a number"
MsgTotalThoughts == "Invalid totalThoughts: must be a number"
MsgNextThoughtNeeded == "Invalid nextThoughtNeeded: must be a boolean"
MsgPhase == "Invalid phase: must be 0, 1 or 2"
MsgEthicalPhase ==
  "Invalid ethicalPhase: must be one of deontological, consequentialist, virtue, care, pluralistic, guardian, clarification, custom"
\* TypeErrors raised by the JavaScript engine
MsgReadOfNull == "Cannot read properties of null (reading 'thought')"
MsgReadOfUndefined == "Cannot read properties of undefined (reading 'thought')"
MsgPushNotFunction == "this.branches[validatedInput.branchId].push is not a function"
MsgPadEndNotFunction == "promptForNext.padEnd is not a function"
MsgCannotConvert == "Cannot convert object to primitive value"

MsgCategory(srv) == IF srv = "jiminy" THEN MsgPhase ELSE MsgEthicalPhase

ValidationMessages(srv) ==
  {MsgThought, MsgThoughtNumber, MsgTotalThoughts, MsgNextThoughtNeeded,
   MsgCategory(srv)}

\* ------------------------------------------------------------------------
\* validateThoughtData
\* ------------------------------------------------------------------------
JiminyPhases == {0, 1, 2}

validPhases ==
  {"deontological", "consequentialist", "virtue", "care", "pluralistic",
   "guardian", "clarification", "custom"}

\* the five checks, each TRUE when the payload violates it
BadThought(data) ==
  ~Truthy(data.f["thought"]) \/ TypeOf(data.f["thought"]) # "string"
BadThoughtNumber(data) == TypeOf(data.f["thoughtNumber"]) # "number"
BadTotalThoughts(data) == TypeOf(data.f["totalThoughts"]) # "number"
BadNextThoughtNeeded(data) == TypeOf(data.f["nextThoughtNeeded"]) # "boolean"
BadCategory(srv, data) ==
  IF srv = "jiminy"
  THEN TypeOf(data.f["phase"]) # "number" \/ data.f["phase"].n \notin JiminyPhases
  ELSE ~(data.f["ethicalPhase"].t = "string" /\ data.f["ethicalPhase"].s \in validPhases)

\* a record whose absent boolean fields default to false
ThoughtData_Defaulted(srv, data) ==
  LET orFalse(v) == IF v = Undefined THEN Bool(FALSE) ELSE v
  IN [thought |-> data.f["thought"],
      thoughtNumber |-> data.f["thoughtNumber"],
      totalThoughts |-> data.f["totalThoughts"],
      nextThoughtNeeded |-> data.f["nextThoughtNeeded"],
      category |-> data.f[CategoryField(srv)],
      isRevision |-> orFalse(data.f["isRevision"]),
      revisesThought |-> data.f["revisesThought"],
      branchFromThought |-> data.f["branchFromThought"],
      branchId |-> data.f["branchId"],
      needsMoreThoughts |-> orFalse(data.f["needsMoreThoughts"]),
      promptForNext |-> (IF srv = "jiminy" THEN Undefined ELSE data.f["promptForNext"])]

\* the record validateThoughtData returns
ThoughtData(srv, data) ==
  [thought |-> data.f["thought"],
   thoughtNumber |-> data.f["thoughtNumber"],
   totalThoughts |-> data.f["totalThoughts"],
   nextThoughtNeeded |-> data.f["nextThoughtNeeded"],
   category |-> data.f[CategoryField(srv)],
   isRevision |-> data.f["isRevision"],
   revisesThought |-> data.f["revisesThought"],
   branchFromThought |-> data.f["branchFromThought"],
   branchId |-> data.f["branchId"],
   needsMoreThoughts |-> data.f["needsMoreThoughts"],
   promptForNext |-> (IF srv = "jiminy" THEN Undefined ELSE data.f["promptForNext"])]

Thrown(msg) == [threw |-> TRUE, error |-> msg]
Returned(v) == [threw |-> FALSE, value |-> v]

\* validateThoughtData without the nextThoughtNeeded check
validateThoughtData_NoBooleanCheck(srv, input) ==
  IF input.t = "null" THEN Thrown(MsgReadOfNull)
  ELSE IF input.t = "undefined" THEN Thrown(MsgReadOfUndefined)
  ELSE IF BadThought(input) THEN Thrown(MsgThought)
  ELSE IF BadThoughtNumber(input) THEN Thrown(MsgThoughtNumber)
  ELSE IF BadTotalThoughts(input) THEN Thrown(MsgTotalThoughts)
  ELSE IF BadCategory(srv, input) THEN Thrown(MsgCategory(srv))
  ELSE Returned(ThoughtData(srv, input))

\* validateThoughtData checking the category before the numbers
validateThoughtData_CategoryFirst(srv, input) ==
  IF input.t = "null" THEN Thrown(MsgReadOfNull)
  ELSE IF input.t = "undefined" THEN Thrown(MsgReadOfUndefined)
  ELSE IF BadThought(input) THEN Thrown(MsgThought)
  ELSE IF BadCategory(srv, input) THEN Thrown(MsgCategory(srv))
  ELSE IF BadThoughtNumber(input) THEN Thrown(MsgThoughtNumber)
  ELSE IF BadTotalThoughts(input) THEN Thrown(MsgTotalThoughts)
  ELSE IF BadNextThoughtNeeded(input) THEN Thrown(MsgNextThoughtNeeded)
  ELSE Returned(ThoughtData(srv, input))

validateThoughtData(srv, input) ==
  IF input.t = "null" THEN Thrown(MsgReadOfNull)
  ELSE IF input.t = "undefined" THEN Thrown(MsgReadOfUndefined)
  ELSE IF BadThought(input) THEN Thrown(MsgThought)
  ELSE IF BadThoughtNumber(input) THEN Thrown(MsgThoughtNumber)
  ELSE IF BadTotalThoughts(input) THEN Thrown(MsgTotalThoughts)
  ELSE IF BadNextThoughtNeeded(input) THEN Thrown(MsgNextThoughtNeeded)
  ELSE IF BadCategory(srv, input) THEN Thrown(MsgCategory(srv))
  ELSE Returned(ThoughtData(srv, input))

\* ------------------------------------------------------------------------
\* branches: Record<string, ThoughtData[]>, kept as the own properties in
\* creation order, each [key, bucket]
\* ------------------------------------------------------------------------
\* property names every object literal inherits from Object.prototype
ObjectPrototypeKeys ==
  {"constructor", "__proto__", "toString", "valueOf", "hasOwnProperty"}

HasOwn(br, k) == \E i \in 1..Len(br) : br[i].key = k
OwnIndex(br, k) == CHOOSE i \in 1..Len(br) : br[i].key = k
Bucket(br, k) == br[OwnIndex(br, k)].bucket

\* this.branches[k] is falsy: k is neither an own nor an inherited property
BranchSlotFalsy(br, k) == ~HasOwn(br, k) /\ k \notin ObjectPrototypeKeys

\* the canonical array-index strings of the model
ArrayIndexKeys == <<"0", "1", "2", "3", "4", "5", "6", "7", "8", "9">>
IsArrayIndex(k) == \E i \in 1..Len(ArrayIndexKeys) : ArrayIndexKeys[i] = k

\* Object.keys(this.branches): integer keys ascending, then string keys in
\* creation order
ObjectKeys(br) ==
  LET keyOf(i) == br[i].key
      created == [i \in 1..Len(br) |-> keyOf(i)]
      isOwn(k) == HasOwn(br, k)
      notIndex(k) == ~IsArrayIndex(k)
  IN SelectSeq(ArrayIndexKeys, isOwn) \o SelectSeq(created, notIndex)

\* FileBranch testing branchId only
FileBranch_IdOnly(br, v) ==
  IF Truthy(v.branchId)
  THEN LET k == ToPropertyKey(v.branchId)
       IN IF HasOwn(br, k)
          THEN Returned([br EXCEPT ![OwnIndex(br, k)].bucket = Append(@, v)])
          ELSE Returned(Append(br, [key |-> k, bucket |-> <<v>>]))
  ELSE Returned(br)

\* FileBranch putting the step at the front of its bucket
FileBranch_Unshift(br, v) ==
  IF Truthy(v.branchFromThought) /\ Truthy(v.branchId)
  THEN LET k == ToPropertyKey(v.branchId)
       IN IF ConversionThrows(v.branchId)
          THEN Thrown(MsgCannotConvert)
          ELSE IF BranchSlotFalsy(br, k)
          THEN Returned(Append(br, [key |-> k, bucket |-> <<v>>]))
          ELSE IF HasOwn(br, k)
          THEN Returned([br EXCEPT ![OwnIndex(br, k)].bucket = <<v>> \o @])
          ELSE Thrown(MsgPushNotFunction)
  ELSE Returned(br)

\* FileBranch without the test of line 121: the bucket is always a new one
FileBranch_AlwaysNew(br, v) ==
  IF Truthy(v.branchFromThought) /\ Truthy(v.branchId)
  THEN LET k == ToPropertyKey(v.branchId)
       IN IF ConversionThrows(v.branchId)
          THEN Thrown(MsgCannotConvert)
          ELSE IF BranchSlotFalsy(br, k)
          THEN Returned(Append(br, [key |-> k, bucket |-> <<v>>]))
          ELSE IF HasOwn(br, k)
          THEN Returned([br EXCEPT ![OwnIndex(br, k)].bucket = <<v>>])
          ELSE Thrown(MsgPushNotFunction)
  ELSE Returned(br)

\* FileBranch refusing a branchId that already has a bucket
FileBranch_RejectExisting(br, v) ==
  IF Truthy(v.branchFromThought) /\ Truthy(v.branchId)
  THEN LET k == ToPropertyKey(v.branchId)
       IN IF ConversionThrows(v.branchId)
          THEN Thrown(MsgCannotConvert)
          ELSE IF BranchSlotFalsy(br, k)
          THEN Returned(Append(br, [key |-> k, bucket |-> <<v>>]))
          ELSE Thrown(MsgPushNotFunction)
  ELSE Returned(br)

\* lines 120-125 / 486-491: file the step under its branch
FileBranch(br, v) ==
  IF Truthy(v.branchFromThought) /\ Truthy(v.branchId)
  THEN LET k == ToPropertyKey(v.branchId)
       IN IF ConversionThrows(v.branchId)
          THEN Thrown(MsgCannotConvert)
          ELSE IF BranchSlotFalsy(br, k)
          THEN Returned(Append(br, [key |-> k, bucket |-> <<v>>]))
          ELSE IF HasOwn(br, k)
          THEN Returned([br EXCEPT ![OwnIndex(br, k)].bucket = Append(@, v)])
          ELSE Thrown(MsgPushNotFunction)
  ELSE Returned(br)

\* ------------------------------------------------------------------------
\* formatThought: the rendering written to stderr.  The box drawing and the
\* colours are left out; the header and the lines are kept.
\* ------------------------------------------------------------------------
phaseLabel(phase) ==
  CASE phase.n = 0 -> "PHASE 0"
    [] phase.n = 1 -> "PHASE 1"
    [] phase.n = 2 -> "PHASE 2"
    [] OTHER -> "PHASE ?"

ethicalPrefix(ethicalPhase) ==
  IF ethicalPhase.s \in validPhases \ {"custom"} THEN ethicalPhase.s ELSE "custom"

formatThought(srv, v) ==
  LET prefix == IF Truthy(v.isRevision) THEN "Revision"
                ELSE IF Truthy(v.branchFromThought) THEN "Branch"
                ELSE IF srv = "jiminy" THEN phaseLabel(v.category)
                ELSE ethicalPrefix(v.category)
      context == IF Truthy(v.isRevision) THEN <<v.revisesThought>>
                 ELSE IF Truthy(v.branchFromThought) THEN <<v.branchFromThought, v.branchId>>
                 ELSE <<>>
      box == [prefix |-> prefix, thoughtNumber |-> v.thoughtNumber,
              totalThoughts |-> v.totalThoughts, context |-> context,
              thought |-> v.thought, promptForNext |-> Undefined]
  IN IF \E i \in 1..Len(context) : ConversionThrows(context[i])
     THEN Thrown(MsgCannotConvert)
     ELSE IF srv = "ethical" /\ Truthy(v.promptForNext)
     THEN IF TypeOf(v.promptForNext) = "string"
          THEN Returned([box EXCEPT !.promptForNext = v.promptForNext])
          ELSE Thrown(MsgPadEndNotFunction)
     ELSE Returned(box)

\* ------------------------------------------------------------------------
\* evaluateJudgment (framework variant): strings are compared through their
\* characters
\* ------------------------------------------------------------------------
\* the characters of the strings of the model
Chars(x) ==
  CASE x = "A" -> <<"A">>
    [] x = "true" -> <<"t", "r", "u", "e">>
    [] x = "TRUE" -> <<"T", "R", "U", "E">>
    [] x = "True" -> <<"T", "r", "u", "e">>
    [] x = "false" -> <<"f", "a", "l", "s", "e">>
    [] x = "1" -> <<"1">>
    [] x = "Acceptable" -> <<"A", "c", "c", "e", "p", "t", "a", "b", "l", "e">>
    [] x = "acceptable" -> <<"a", "c", "c", "e", "p", "t", "a", "b", "l", "e">>
    [] x = "unacceptable" ->
         <<"u", "n", "a", "c", "c", "e", "p", "t", "a", "b", "l", "e">>
    [] x = "UNACCEPTABLE" ->
         <<"U", "N", "A", "C", "C", "E", "P", "T", "A", "B", "L", "E">>
    [] OTHER -> <<>>

UpperCase == <<"A", "B", "C", "E", "L", "N", "P", "R", "T", "U">>
LowerCase == <<"a", "b", "c", "e", "l", "n", "p", "r", "t", "u">>

\* String.prototype.toLowerCase on the characters
toLowerCase(cs) ==
  [i \in 1..Len(cs) |->
     IF \E j \in 1..Len(UpperCase) : UpperCase[j] = cs[i]
     THEN LowerCase[CHOOSE j \in 1..Len(UpperCase) : UpperCase[j] = cs[i]]
     ELSE cs[i]]

\* String.prototype.startsWith in the place of includes
includes_StartsWith(cs, sub) ==
  Len(sub) <= Len(cs) /\ SubSeq(cs, 1, Len(sub)) = sub

\* String.prototype.includes on the characters
includes(cs, sub) ==
  \E i \in 0..(Len(cs) - Len(sub)) : SubSeq(cs, i + 1, i + Len(sub)) = sub

JudgmentPhases ==
  {"deontological", "consequentialist", "virtue", "care", "pluralistic"}

JudgmentAcceptable ==
  "Final ethical judgment: Action is acceptable under all frameworks considered."
JudgmentProblematic ==
  "Final ethical judgment: Action is ethically problematic under at least one framework."
JudgmentMixed ==
  "Ethical judgment: Mixed or ambiguous, further analysis recommended."

\* evaluateJudgment looking at the last two qualifying steps only
evaluateJudgment_LastTwo(hist) ==
  LET isRelevant(td) == td.category.s \in JudgmentPhases
      every == SelectSeq(hist, isRelevant)
      relevant == IF Len(every) > 2 THEN SubSeq(every, Len(every) - 1, Len(every))
                  ELSE every
      lower(i) == toLowerCase(Chars(relevant[i].thought.s))
      allAcceptable ==
        \A i \in 1..Len(relevant) : includes(lower(i), Chars("acceptable"))
      anyUnacceptable ==
        \E i \in 1..Len(relevant) : includes(lower(i), Chars("unacceptable"))
  IN IF Len(relevant) < 2 THEN Null
     ELSE IF allAcceptable THEN Str(JudgmentAcceptable)
     ELSE IF anyUnacceptable THEN Str(JudgmentProblematic)
     ELSE Str(JudgmentMixed)

\* evaluateJudgment counting the steps of every category
evaluateJudgment_AllSteps(hist) ==
  LET lower(i) == toLowerCase(Chars(hist[i].thought.s))
      allAcceptable ==
        \A i \in 1..Len(hist) : includes(lower(i), Chars("acceptable"))
      anyUnacceptable ==
        \E i \in 1..Len(hist) : includes(lower(i), Chars("unacceptable"))
  IN IF Len(hist) < 2 THEN Null
     ELSE IF allAcceptable THEN Str(JudgmentAcceptable)
     ELSE IF anyUnacceptable THEN Str(JudgmentProblematic)
     ELSE Str(JudgmentMixed)

\* evaluateJudgment testing the negative marker first
evaluateJudgment_NegativeFirst(hist) ==
  LET isRelevant(td) == td.category.s \in JudgmentPhases
      relevant == SelectSeq(hist, isRelevant)
      lower(i) == toLowerCase(Chars(relevant[i].thought.s))
      allAcceptable ==
        \A i \in 1..Len(relevant) : includes(lower(i), Chars("acceptable"))
      anyUnacceptable ==
        \E i \in 1..Len(relevant) : includes(lower(i), Chars("unacceptable"))
  IN IF Len(relevant) < 2 THEN Null
     ELSE IF anyUnacceptable THEN Str(JudgmentProblematic)
     ELSE IF allAcceptable THEN Str(JudgmentAcceptable)
     ELSE Str(JudgmentMixed)

evaluateJudgment(hist) ==
  LET isRelevant(td) == td.category.s \in JudgmentPhases
      relevant == SelectSeq(hist, isRelevant)
      lower(i) == toLowerCase(Chars(relevant[i].thought.s))
      allAcceptable ==
        \A i \in 1..Len(relevant) : includes(lower(i), Chars("acceptable"))
      anyUnacceptable ==
        \E i \in 1..Len(relevant) : includes(lower(i), Chars("unacceptable"))
  IN IF Len(relevant) < 2 THEN Null
     ELSE IF allAcceptable THEN Str(JudgmentAcceptable)
     ELSE IF anyUnacceptable THEN Str(JudgmentProblematic)
     ELSE Str(JudgmentMixed)

\* ------------------------------------------------------------------------
\* The constructor (lines 32-34): the logging toggle read from the
\* environment variable DISABLE_THOUGHT_LOGGING, Undefined when it is unset
\* ------------------------------------------------------------------------
\* a toggle that only the exact string "true" sets
\* a constructor comparing the value as it is
constructor_ExactMatch(value) == value = Str("true")

constructor(value) ==
  LET text == IF Truthy(value) THEN value.s ELSE ""
  IN toLowerCase(Chars(text)) = Chars("true")

\* ------------------------------------------------------------------------
\* processThought
\* ------------------------------------------------------------------------
\* the object serialized on the success path (lines 132-144 / 498-518);
\* JSON.stringify drops the keys whose value is undefined
Snapshot(srv, v, hist, br) ==
  [body |-> "snapshot", isError |-> FALSE,
   thoughtNumber |-> v.thoughtNumber,
   totalThoughts |-> v.totalThoughts,
   nextThoughtNeeded |-> v.nextThoughtNeeded,
   category |-> v.category,
   branches |-> ObjectKeys(br),
   promptForNext |-> v.promptForNext,
   judgment |-> (IF srv = "ethical" THEN evaluateJudgment(hist) ELSE Undefined),
   thoughtHistoryLength |-> Len(hist)]

\* the object serialized in the catch block (lines 145-156 / 519-536)
Failure(msg) ==
  [body |-> "failure", isError |-> TRUE, error |-> msg, status |-> "failed"]

\* an exception that leaves processThought
Uncaught(msg) == [body |-> "exception", isError |-> TRUE, error |-> msg]

\* CorrectEstimate without the correction
CorrectEstimate_NoRaise(v) == v

\* CorrectEstimate with the comparison reversed
CorrectEstimate_Reversed(v) ==
  IF v.thoughtNumber.n < v.totalThoughts.n
  THEN [v EXCEPT !.totalThoughts = v.thoughtNumber]
  ELSE v

\* lines 114-116 / 480-482
CorrectEstimate(v) ==
  IF v.thoughtNumber.n > v.totalThoughts.n
  THEN [v EXCEPT !.totalThoughts = v.thoughtNumber]
  ELSE v

\* a push that also raises the estimates of the steps already stored
PushHistory_Retroactive(hist, v) ==
  Append([i \in 1..Len(hist) |->
            IF hist[i].totalThoughts.n < v.thoughtNumber.n
            THEN [hist[i] EXCEPT !.totalThoughts = v.thoughtNumber]
            ELSE hist[i]],
         v)

\* a push that replaces the step a revision names
PushHistory_ReplaceRevised(hist, v) ==
  IF Truthy(v.isRevision)
       /\ \E i \in 1..Len(hist) : hist[i].thoughtNumber = v.revisesThought
  THEN [hist EXCEPT ![CHOOSE i \in 1..Len(hist) :
                        hist[i].thoughtNumber = v.revisesThought] = v]
  ELSE Append(hist, v)

\* a push that is lost
PushHistory_Lost(hist, v) == hist

\* line 118 / 484: this.thoughtHistory.push(validatedInput)
PushHistory(hist, v) == Append(hist, v)

\* the try block: the ledger after it, and either the snapshot or the
\* exception that ended it
TryBlock(srv, disable, hist, br, err, input) ==
  LET validated == validateThoughtData(srv, input)
  IN IF validated.threw
     THEN [threw |-> TRUE, error |-> validated.error,
           thoughtHistory |-> hist, branches |-> br, stderr |-> err]
     ELSE
       LET v == CorrectEstimate(validated.value)
           hist1 == PushHistory(hist, v)
           filed == FileBranch(br, v)
       IN IF filed.threw
          THEN [threw |-> TRUE, error |-> filed.error,
                thoughtHistory |-> hist1, branches |-> br, stderr |-> err]
          ELSE
            LET br1 == filed.value
                logging == srv = "ethical" \/ ~disable
                formatted == formatThought(srv, v)
            IN IF logging /\ formatted.threw
               THEN [threw |-> TRUE, error |-> formatted.error,
                     thoughtHistory |-> hist1, branches |-> br1, stderr |-> err]
               ELSE [threw |-> FALSE,
                     result |-> Snapshot(srv, v, hist1, br1),
                     thoughtHistory |-> hist1, branches |-> br1,
                     stderr |-> (IF logging THEN Append(err, formatted.value) ELSE err)]

\* a catch block that handles the validator's errors only
Catch_ValidationOnly(error) ==
  IF error \in ValidationMessages("jiminy") \cup ValidationMessages("ethical")
  THEN Failure(error)
  ELSE Uncaught(error)

\* the catch block
Catch(error) == Failure(error)

processThought(srv, disable, hist, br, err, input) ==
  LET try == TryBlock(srv, disable, hist, br, err, input)
  IN [result |-> (IF try.threw THEN Catch(try.error) ELSE try.result),
      thoughtHistory |-> try.thoughtHistory,
      branches |-> try.branches,
      stderr |-> try.stderr]

\* ------------------------------------------------------------------------
\* The CallToolRequestSchema handler (lines 261-273 / 604-618)
\* ------------------------------------------------------------------------
ToolName(srv) ==
  IF srv = "jiminy" THEN "jiminy_sequential_thinking" ELSE "sequentialethicalthinking"

UnknownTool(name) == [body |-> "text", isError |-> TRUE, text |-> "Unknown tool", name |-> name]

\* a handler that passes every request to processThought
CallToolHandler_AnyName(srv, disable, hist, br, err, name, input) ==
  processThought(srv, disable, hist, br, err, input)

CallToolHandler(srv, disable, hist, br, err, name, input) ==
  IF name = ToolName(srv)
  THEN processThought(srv, disable, hist, br, err, input)
  ELSE [result |-> UnknownTool(name), thoughtHistory |-> hist,
        branches |-> br, stderr |-> err]

\* ------------------------------------------------------------------------
\* The payloads the dispatcher is fed
\* ------------------------------------------------------------------------
With(f, k, v) == [f EXCEPT ![k] = v]

ValidCategory(srv) == IF srv = "jiminy" THEN Num(0) ELSE Str("care")
OtherCategory(srv) == IF srv = "jiminy" THEN Num(2) ELSE Str("guardian")
BadCategory1(srv) == IF srv = "jiminy" THEN Num(3) ELSE Str("bogus")
BadCategory2(srv) == IF srv = "jiminy" THEN Str("1") ELSE Undefined

\* a payload that passes the validator and sets no optional field
Base(srv) ==
  [NoFields EXCEPT !["thought"] = Str("A"),
                   !["thoughtNumber"] = Num(1),
                   !["totalThoughts"] = Num(2),
                   !["nextThoughtNeeded"] = Bool(TRUE),
                   ![CategoryField(srv)] = ValidCategory(srv)]

RequiredFields(srv) ==
  {"thought", "thoughtNumber", "totalThoughts", "nextThoughtNeeded",
   CategoryField(srv)}

\* a value of each required field that its check rejects
BadValue(srv, k) ==
  CASE k = "thought" -> Str("")
    [] k = "thoughtNumber" -> Str("oops")
    [] k = "totalThoughts" -> Undefined
    [] k = "nextThoughtNeeded" -> Undefined
    [] OTHER -> BadCategory1(srv)

\* Base with up to MaxBadFields required fields replaced by a bad value
RequiredGrid(srv) ==
  {[k \in FieldNames |-> IF k \in S THEN BadValue(srv, k) ELSE Base(srv)[k]] :
     S \in {T \in SUBSET RequiredFields(srv) : Cardinality(T) <= MaxBadFields}}

\* other values of one required field
RequiredVariations(srv) ==
  {With(Base(srv), "thought", Undefined),
   With(Base(srv), "thought", Num(1)),
   With(Base(srv), CategoryField(srv), BadCategory2(srv)),
   With(Base(srv), "thoughtNumber", Num(0)),
   With(Base(srv), "thoughtNumber", Num(2)),
   With(Base(srv), "thoughtNumber", Num(3)),
   With(Base(srv), "nextThoughtNeeded", Bool(FALSE)),
   With(Base(srv), CategoryField(srv), OtherCategory(srv))}

\* branch fields, absent and present with falsy and truthy values
BranchVariations(srv) ==
  {[Base(srv) EXCEPT !["branchFromThought"] = b, !["branchId"] = i] :
     b \in {Undefined, Num(1)}, i \in {Undefined, Str("alt")}}
    \cup {[Base(srv) EXCEPT !["branchFromThought"] = Num(0), !["branchId"] = Str("alt")]}
    \cup {[Base(srv) EXCEPT !["branchFromThought"] = Num(1), !["branchId"] = i] :
            i \in {Str(""), Str("2"), Str("constructor")}}

\* the other optional fields
OptionalVariations(srv) ==
  {With(Base(srv), "promptForNext", Str("hint")),
   With(Base(srv), "promptForNext", Num(5)),
   With(With(Base(srv), "isRevision", Bool(TRUE)), "revisesThought", Num(1))}

Payloads(srv) ==
  {Prim(Undefined), Prim(Null), Prim(Num(5))}
    \cup {Obj(f) : f \in RequiredGrid(srv) \cup RequiredVariations(srv)
                         \cup BranchVariations(srv) \cup OptionalVariations(srv)}

\* the tool-call requests: the registered tool with every payload, another
\* tool name with a valid payload
Requests(srv) ==
  {[name |-> ToolName(srv), arguments |-> p] : p \in Payloads(srv)}
    \cup {[name |-> "other_tool", arguments |-> Obj(Base(srv))]}

\* DISABLE_THOUGHT_LOGGING as the README starts the server: not set (the
\* other values are those of LoggingEnvValues)
EnvValues(srv) == {Undefined}

\* ------------------------------------------------------------------------
\* State
\* ------------------------------------------------------------------------
VARIABLES
  server,                 \* which of the two server classes runs
  env,                    \* process.env.DISABLE_THOUGHT_LOGGING
  disableThoughtLogging,  \* Jiminy's logging toggle
  thoughtHistory,         \* this.thoughtHistory
  branches,               \* this.branches
  stderr,                 \* what console.error has written
  pending,                \* the requests received and not yet dispatched
  request,                \* the last tool-call request dispatched
  response,               \* what the handler returned for it
  successes,              \* how many snapshots processThought has returned
  reported                \* the thoughtHistoryLength of each of them

vars ==
  <<server, env, disableThoughtLogging, thoughtHistory, branches, stderr,
    pending, request, response, successes, reported>>

NoRequest == [name |-> "", arguments |-> Prim(Undefined)]
NoResponse == [body |-> "none", isError |-> FALSE]

\* a fresh server of one of the classes srvs, started with an environment
\* value of envs
Start(srvs, envs) ==
  /\ server \in srvs
  /\ env \in envs[server]
  /\ disableThoughtLogging = (IF server = "jiminy" THEN constructor(env) ELSE FALSE)
  /\ thoughtHistory = <<>>
  /\ branches = <<>>
  /\ stderr = <<>>
  /\ pending = <<>>
  /\ request = NoRequest
  /\ response = NoResponse
  /\ successes = 0
  /\ reported = <<>>

Init ==
  Start({"jiminy", "ethical"}, [srv \in {"jiminy", "ethical"} |-> EnvValues(srv)])

\* the handler runs for one request, to completion
Dispatch(req) ==
  /\ LET out == CallToolHandler(server, disableThoughtLogging, thoughtHistory,
                                branches, stderr, req.name, req.arguments)
     IN /\ thoughtHistory' = out.thoughtHistory
        /\ branches' = out.branches
        /\ stderr' = out.stderr
        /\ response' = out.result
        /\ successes' = IF out.result.body = "snapshot" THEN successes + 1 ELSE successes
        /\ reported' = IF out.result.body = "snapshot"
                       THEN Append(reported, out.result.thoughtHistoryLength)
                       ELSE reported
  /\ request' = req
  /\ UNCHANGED <<server, env, disableThoughtLogging>>

\* one tool-call request, dispatched as it arrives
CallTool(req) ==
  /\ Len(thoughtHistory) < MaxHistory
  /\ Dispatch(req)
  /\ UNCHANGED pending

Next == \E req \in Requests(server) : CallTool(req)

Spec == Init /\ [][Next]_vars

\* ------------------------------------------------------------------------
\* The framework variant fed steps of several texts and categories
\* ------------------------------------------------------------------------
JudgmentPayloads ==
  {Obj([Base("ethical") EXCEPT !["thought"] = Str(x), !["ethicalPhase"] = Str(c)]) :
     x \in {"A", "Acceptable", "unacceptable", "UNACCEPTABLE"},
     c \in {"care", "guardian"}}
    \cup {Obj([Base("ethical") EXCEPT !["thought"] = Str("Acceptable"),
                                      !["ethicalPhase"] = Str("custom")]),
          Obj([Base("ethical") EXCEPT !["thought"] = Str("A"),
                                      !["ethicalPhase"] = Str("virtue")]),
          Obj([Base("ethical") EXCEPT !["thought"] = Str("Acceptable"),
                                      !["ethicalPhase"] = Str("clarification")]),
          Obj([Base("ethical") EXCEPT !["thought"] = Str("Acceptable"),
                                      !["promptForNext"] = Num(5)])}

InitJudgment == Start({"ethical"}, [srv \in {"ethical"} |-> EnvValues(srv)])

CallJudged(req) ==
  /\ Len(thoughtHistory) < MaxJudgmentHistory
  /\ Dispatch(req)
  /\ UNCHANGED pending

NextJudgment ==
  \E p \in JudgmentPayloads :
    CallJudged([name |-> ToolName("ethical"), arguments |-> p])

SpecJudgment == InitJudgment /\ [][NextJudgment]_vars

\* ------------------------------------------------------------------------
\* Both variants started under several values of DISABLE_THOUGHT_LOGGING
\* ------------------------------------------------------------------------
LoggingEnvValues(srv) ==
  {Undefined, Str(""), Str("true"), Str("TRUE"), Str("True"), Str("false"), Str("1")}

LoggingPayloads(srv) ==
  {Obj(f) : f \in
     {Base(srv),
      With(Base(srv), "thoughtNumber", Num(2)),
      With(Base(srv), "thought", Undefined),
      With(With(Base(srv), "isRevision", Bool(TRUE)), "revisesThought", Num(1)),
      With(With(Base(srv), "isRevision", Bool(TRUE)), "revisesThought", NoPrimitive),
      With(With(Base(srv), "branchFromThought", Num(1)), "branchId", Str("alt")),
      With(With(Base(srv), "branchFromThought", Num(1)), "branchId", Str("constructor"))}}

InitLogging ==
  Start({"jiminy", "ethical"}, [srv \in {"jiminy", "ethical"} |-> LoggingEnvValues(srv)])

CallLogged(req) ==
  /\ Len(thoughtHistory) < MaxLoggingHistory
  /\ Dispatch(req)
  /\ UNCHANGED pending

NextLogging ==
  \E p \in LoggingPayloads(server) :
    CallLogged([name |-> ToolName(server), arguments |-> p])

SpecLogging == InitLogging /\ [][NextLogging]_vars

\* ------------------------------------------------------------------------
\* Several tool-call requests outstanding at once.  The handler is an async
\* function without an await: a request that has arrived waits in pending
\* until the event loop runs its handler, and the handler then runs
\* processThought from its first to its last statement.
\* ------------------------------------------------------------------------
ConcurrentPayloads(srv) ==
  {Obj(f) : f \in
     {Base(srv),
      With(Base(srv), "thoughtNumber", Num(2)),
      With(Base(srv), "thought", Undefined),
      With(With(Base(srv), "branchFromThought", Num(1)), "branchId", Str("constructor"))}}

InitConcurrent ==
  Start({"jiminy", "ethical"}, [srv \in {"jiminy", "ethical"} |-> EnvValues(srv)])

\* a request arrives while others are outstanding
Receive(req) ==
  /\ Len(pending) < MaxPending
  /\ pending' = Append(pending, req)
  /\ UNCHANGED <<server, env, disableThoughtLogging, thoughtHistory, branches,
                 stderr, request, response, successes, reported>>

\* the event loop runs the handler of one outstanding request
Handle(i) ==
  /\ i \in 1..Len(pending)
  /\ Len(thoughtHistory) < MaxHistory
  /\ Dispatch(pending[i])
  /\ pending' = SubSeq(pending, 1, i - 1) \o SubSeq(pending, i + 1, Len(pending))

NextConcurrent ==
  \/ \E p \in ConcurrentPayloads(server) :
       Receive([name |-> ToolName(server), arguments |-> p])
  \/ \E i \in 1..MaxPending : Handle(i)

SpecConcurrent == InitConcurrent /\ [][NextConcurrent]_vars

\* ------------------------------------------------------------------------
\* Both variants fed payloads that set the optional fields one at a time, to
\* true and false, truthy and falsy values
\* ------------------------------------------------------------------------
OptionalPayloads(srv) ==
  {Obj(f) : f \in
     {Base(srv),
      With(Base(srv), "isRevision", Bool(FALSE)),
      With(Base(srv), "isRevision", Bool(TRUE)),
      With(Base(srv), "revisesThought", Num(1)),
      With(Base(srv), "branchFromThought", Num(0)),
      With(Base(srv), "branchFromThought", Num(1)),
      With(Base(srv), "branchId", Str("alt")),
      With(Base(srv), "needsMoreThoughts", Bool(FALSE)),
      With(Base(srv), "needsMoreThoughts", Bool(TRUE)),
      With(Base(srv), "promptForNext", Str("hint")),
      With(Base(srv), "promptForNext", Null),
      With(Base(srv), "thought", Undefined)}}

InitOptional ==
  Start({"jiminy", "ethical"}, [srv \in {"jiminy", "ethical"} |-> EnvValues(srv)])

CallOptional(req) ==
  /\ Len(thoughtHistory) < MaxOptionalHistory
  /\ Dispatch(req)
  /\ UNCHANGED pending

NextOptional ==
  \E p \in OptionalPayloads(server) :
    CallOptional([name |-> ToolName(server), arguments |-> p])

SpecOptional == InitOptional /\ [][NextOptional]_vars

\* ------------------------------------------------------------------------
\* Both variants fed steps of several branches and origins
\* ------------------------------------------------------------------------
BranchPayloads(srv) ==
  {Obj(f) : f \in
     {Base(srv),
      With(Base(srv), "thoughtNumber", Num(2)),
      With(With(Base(srv), "branchFromThought", Num(1)), "branchId", Str("alt")),
      With(With(Base(srv), "branchFromThought", Num(2)), "branchId", Str("alt")),
      With(With(Base(srv), "branchFromThought", Num(1)), "branchId", Str("2")),
      With(With(Base(srv), "branchFromThought", Num(1)), "branchId", Str("constructor")),
      With(Base(srv), "thought", Undefined)}}

InitBranches ==
  Start({"jiminy", "ethical"}, [srv \in {"jiminy", "ethical"} |-> EnvValues(srv)])

CallBranch(req) ==
  /\ Len(thoughtHistory) < MaxBranchHistory
  /\ Dispatch(req)
  /\ UNCHANGED pending

NextBranches ==
  \E p \in BranchPayloads(server) :
    CallBranch([name |-> ToolName(server), arguments |-> p])

SpecBranches == InitBranches /\ [][NextBranches]_vars

\* ------------------------------------------------------------------------
\* Both variants called under their own tool name, the other variant's, and
\* names no server registers
\* ------------------------------------------------------------------------
ToolNames == {ToolName("jiminy"), ToolName("ethical"), "other_tool", ""}

ToolPayloads(srv) ==
  {Obj(f) : f \in
     {Base(srv),
      With(Base(srv), "thoughtNumber", Num(2)),
      With(With(Base(srv), "branchFromThought", Num(1)), "branchId", Str("alt")),
      With(Base(srv), "thought", Undefined)}}

InitTools ==
  Start({"jiminy", "ethical"}, [srv \in {"jiminy", "ethical"} |-> EnvValues(srv)])

CallNamed(req) ==
  /\ Len(thoughtHistory) < MaxToolHistory
  /\ Dispatch(req)
  /\ UNCHANGED pending

NextTools ==
  \E n \in ToolNames, p \in ToolPayloads(server) :
    CallNamed([name |-> n, arguments |-> p])

SpecTools == InitTools /\ [][NextTools]_vars

\* ------------------------------------------------------------------------
\* Vocabulary of the properties
\* ------------------------------------------------------------------------
\* the last request was a processThought call
Processed == request.name = ToolName(server)
ProcessedNext == request'.name = ToolName(server)

Accepted == Processed /\ response.body = "snapshot"
Rejected == Processed /\ response.body = "failure"

Payload == request.arguments.f

\* the required-field checks a payload violates, by field
CheckOrder == <<"text", "index", "estimatedTotal", "continuation", "category">>

InCategorySet(srv, c) ==
  IF srv = "jiminy"
  THEN c.t = "number" /\ c.n \in JiminyPhases
  ELSE c.t = "string" /\ c.s \in validPhases

Violations(srv, f) ==
  {k \in {"text", "index", "estimatedTotal", "continuation", "category"} :
     CASE k = "text" -> f["thought"].t # "string" \/ f["thought"].s = ""
       [] k = "index" -> f["thoughtNumber"].t # "number"
       [] k = "estimatedTotal" -> f["totalThoughts"].t # "number"
       [] k = "continuation" -> f["nextThoughtNeeded"].t # "boolean"
       [] OTHER -> ~InCategorySet(srv, f[CategoryField(srv)])}

FirstViolation(srv, f) ==
  CheckOrder[CHOOSE i \in 1..5 :
               /\ CheckOrder[i] \in Violations(srv, f)
               /\ \A j \in 1..(i - 1) : CheckOrder[j] \notin Violations(srv, f)]

MessageOf(srv, k) ==
  CASE k = "text" -> MsgThought
    [] k = "index" -> MsgThoughtNumber
    [] k = "estimatedTotal" -> MsgTotalThoughts
    [] k = "continuation" -> MsgNextThoughtNeeded
    [] OTHER -> MsgCategory(srv)

IsPrefix(a, b) == Len(a) <= Len(b) /\ SubSeq(b, 1, Len(a)) = a

\* bucket k of br2 is bucket k of br plus v at its end, and nothing else of
\* br differs in br2
AppendedOnce(br, br2, k, v) ==
  /\ HasOwn(br2, k)
  /\ Bucket(br2, k) = (IF HasOwn(br, k) THEN Bucket(br, k) ELSE <<>>) \o <<v>>
  /\ \A j \in 1..Len(br2) :
       br2[j].key # k =>
         HasOwn(br, br2[j].key) /\ Bucket(br, br2[j].key) = br2[j].bucket
  /\ \A j \in 1..Len(br) : HasOwn(br2, br[j].key)

\* ------------------------------------------------------------------------
\* C1  Append-only history: the thoughtHistoryLength of every snapshot is
\* the number of snapshots returned so far, and no call changes an entry
\* that is already in thoughtHistory.
\* ------------------------------------------------------------------------
C1_AppendOnly ==
  [][/\ (ProcessedNext /\ response'.body = "snapshot")
          => response'.thoughtHistoryLength = successes'
     /\ IsPrefix(thoughtHistory, thoughtHistory')]_vars

\* ------------------------------------------------------------------------
\* C2  Estimate correction: the totalThoughts of a snapshot is the payload's
\* thoughtNumber when that exceeds the payload's totalThoughts, and the
\* payload's totalThoughts otherwise.
\* ------------------------------------------------------------------------
C2_EstimateCorrection ==
  Accepted =>
    response.totalThoughts =
      (IF Payload["thoughtNumber"].n > Payload["totalThoughts"].n
       THEN Payload["thoughtNumber"]
       ELSE Payload["totalThoughts"])

C2_Witness ==
  /\ Accepted
  /\ Payload["thoughtNumber"] = Num(3)
  /\ Payload["totalThoughts"] = Num(2)
  /\ response.totalThoughts = Num(3)

\* ------------------------------------------------------------------------
\* C3  (as claimed) The totalThoughts of a snapshot is never smaller than
\* the largest thoughtNumber of the steps in thoughtHistory.
\* ------------------------------------------------------------------------
C3_NeverBelowLargestIndex ==
  Accepted =>
    \A i \in 1..Len(thoughtHistory) :
      response.totalThoughts.n >= thoughtHistory[i].thoughtNumber.n

\* C3  (amended) The totalThoughts of a snapshot is never smaller than the
\* thoughtNumber of the step the snapshot reports.
C3_NeverBelowOwnIndex ==
  Accepted =>
    /\ response.thoughtNumber = Payload["thoughtNumber"]
    /\ response.totalThoughts.n >= response.thoughtNumber.n

\* a snapshot whose totalThoughts is below an earlier step's thoughtNumber
C3_Witness ==
  /\ Accepted
  /\ \E i \in 1..(Len(thoughtHistory) - 1) :
       thoughtHistory[i].thoughtNumber.n > response.totalThoughts.n

\* ------------------------------------------------------------------------
\* C4  (as claimed) An accepted step is appended to branches[branchId]
\* exactly once when branchFromThought and branchId are both present in the
\* payload, whatever their values, and branches is untouched otherwise.
\* ------------------------------------------------------------------------
C4_FiledIffPresent ==
  [][(ProcessedNext /\ response'.body = "snapshot") =>
       LET f == request'.arguments.f
           step == thoughtHistory'[Len(thoughtHistory')]
       IN IF f["branchFromThought"] # Undefined /\ f["branchId"] # Undefined
          THEN AppendedOnce(branches, branches', ToPropertyKey(f["branchId"]), step)
          ELSE branches' = branches]_vars

\* C4  (amended) An accepted step is appended to branches[branchId] exactly
\* once when branchFromThought and branchId both carry a truthy value, and
\* branches is untouched when either is absent or falsy (0, "").
C4_FiledIffTruthy ==
  [][(ProcessedNext /\ response'.body = "snapshot") =>
       LET f == request'.arguments.f
           step == thoughtHistory'[Len(thoughtHistory')]
       IN IF Truthy(f["branchFromThought"]) /\ Truthy(f["branchId"])
          THEN AppendedOnce(branches, branches', ToPropertyKey(f["branchId"]), step)
          ELSE branches' = branches]_vars

\* a second step filed under an existing branch
C4_Witness ==
  /\ Accepted
  /\ Payload["branchFromThought"] = Num(1)
  /\ Payload["branchId"] = Str("alt")
  /\ HasOwn(branches, "alt")
  /\ Len(Bucket(branches, "alt")) = 2

\* ------------------------------------------------------------------------
\* C5  Validator rejection set: a payload that violates exactly one of the
\* five required-field checks gets a failure result, and thoughtHistory and
\* branches are what they were before the call.
\* ------------------------------------------------------------------------
C5_RejectionSet ==
  [][(/\ ProcessedNext
      /\ request'.arguments.t = "object"
      /\ Cardinality(Violations(server, request'.arguments.f)) = 1)
       => /\ response'.body = "failure"
          /\ response'.isError
          /\ thoughtHistory' = thoughtHistory
          /\ branches' = branches]_vars

\* a payload with a category outside the set, rejected by a ledger that
\* already holds a step
C5_Witness ==
  /\ Rejected
  /\ request.arguments.t = "object"
  /\ Violations(server, Payload) = {"category"}
  /\ Len(thoughtHistory) >= 1

\* ------------------------------------------------------------------------
\* C6  State unchanged on failure: a call that returns a failure result
\* leaves thoughtHistory and branches as they were.
\* ------------------------------------------------------------------------
C6_UnchangedOnFailure ==
  [][(ProcessedNext /\ response'.body = "failure")
       => (thoughtHistory' = thoughtHistory /\ branches' = branches)]_vars

\* ------------------------------------------------------------------------
\* C7  Append is total on validated input: a payload that passes the five
\* checks gets a snapshot, and a failure result comes from a payload that
\* violates a check.
\* ------------------------------------------------------------------------
C7_TotalOnValidInput ==
  Processed =>
    /\ (request.arguments.t = "object" /\ Violations(server, Payload) = {})
         => response.body = "snapshot"
    /\ response.body = "failure" => Violations(server, Payload) # {}

\* ------------------------------------------------------------------------
\* C8  No exception crosses the interface: whatever the payload, null and
\* undefined included, processThought returns a snapshot, or an error
\* message with status failed and the failure flag set.
\* ------------------------------------------------------------------------
C8_NoExceptionEscapes ==
  Processed =>
    \/ response.body = "snapshot" /\ ~response.isError
    \/ /\ response.body = "failure"
       /\ response.isError
       /\ response.status = "failed"
       /\ response.error # ""

\* a null payload answered with a failure result
C8_Witness ==
  /\ Processed
  /\ request.arguments.t = "null"
  /\ response.body = "failure"
  /\ response.error = MsgReadOfNull

\* ------------------------------------------------------------------------
\* C9  Single error kind: every failure result carries one of the five
\* validation messages.
\* ------------------------------------------------------------------------
C9_OnlyValidationMessages ==
  Rejected => response.error \in ValidationMessages(server)

C11_StoredStepsWellFormed ==
  \A i \in 1..Len(thoughtHistory) :
    LET td == thoughtHistory[i]
    IN /\ td.thought.t = "string" /\ td.thought.s # ""
       /\ td.thoughtNumber.t = "number" /\ td.thoughtNumber.n >= 1
       /\ td.totalThoughts.t = "number" /\ td.totalThoughts.n >= 1
       /\ td.nextThoughtNeeded.t = "boolean"
       /\ InCategorySet(server, td.category)

\* ------------------------------------------------------------------------
\* C12  Branch list order: the branches list of every snapshot holds the
\* identifiers that have a bucket, each once, in the order in which the
\* buckets were created.
\* ------------------------------------------------------------------------
C12_BranchListInCreationOrder ==
  Accepted => response.branches = [i \in 1..Len(branches) |-> branches[i].key]

\* the steps of thoughtHistory whose category is a reasoning framework
QualifyingTags ==
  {"deontological", "consequentialist", "virtue", "care", "pluralistic"}

Qualifying == {i \in 1..Len(thoughtHistory) :
                 thoughtHistory[i].category.s \in QualifyingTags}

\* the text of step i contains the marker, whatever the case of its letters
HasMarker(i, marker) ==
  includes(toLowerCase(Chars(thoughtHistory[i].thought.s)), Chars(marker))

UniformlyAffirmative == Str(JudgmentAcceptable)
AtLeastOneDissent == Str(JudgmentProblematic)
MixedAmbiguous == Str(JudgmentMixed)

\* ------------------------------------------------------------------------
\* C13  Judgment threshold: the judgment of a snapshot of the framework
\* variant is null when thoughtHistory holds fewer than two steps of the
\* five framework categories, and one of the three labels otherwise.
\* ------------------------------------------------------------------------
C13_JudgmentThreshold ==
  (Accepted /\ server = "ethical") =>
    IF Cardinality(Qualifying) < 2
    THEN response.judgment = Null
    ELSE response.judgment \in
           {UniformlyAffirmative, AtLeastOneDissent, MixedAmbiguous}

\* three steps of which two are guardian or custom steps: no judgment
C13_Witness ==
  /\ Accepted
  /\ server = "ethical"
  /\ Len(thoughtHistory) = 3
  /\ Cardinality(Qualifying) = 1
  /\ response.judgment = Null

\* ------------------------------------------------------------------------
\* C14  Judgment classification: with two or more qualifying steps the
\* judgment is affirmative when every qualifying text contains "acceptable",
\* else dissent when some qualifying text contains "unacceptable", else
\* mixed.
\* ------------------------------------------------------------------------
C14_JudgmentClassification ==
  (Accepted /\ server = "ethical" /\ Cardinality(Qualifying) >= 2) =>
    response.judgment =
      (IF \A i \in Qualifying : HasMarker(i, "acceptable")
       THEN UniformlyAffirmative
       ELSE IF \E i \in Qualifying : HasMarker(i, "unacceptable")
       THEN AtLeastOneDissent
       ELSE MixedAmbiguous)

\* a dissent found through an upper-case marker
C14_Witness ==
  /\ Accepted
  /\ server = "ethical"
  /\ \E i \in Qualifying : thoughtHistory[i].thought = Str("UNACCEPTABLE")
  /\ \E i \in Qualifying : thoughtHistory[i].thought = Str("A")
  /\ response.judgment = AtLeastOneDissent

\* the payload of the call just handled marks the step as a revision
RevisionNext ==
  /\ ProcessedNext
  /\ request'.arguments.t = "object"
  /\ Truthy(request'.arguments.f["isRevision"])

\* ------------------------------------------------------------------------
\* C15  Revisions are metadata only: a call that accepts a step with
\* isRevision true makes thoughtHistory one entry longer, the new entry at
\* its end, and every entry that was in thoughtHistory stays where it was,
\* unmodified.
\* ------------------------------------------------------------------------
C15_RevisionAppendsOnly ==
  [][(RevisionNext /\ response'.body = "snapshot") =>
       /\ Len(thoughtHistory') = Len(thoughtHistory) + 1
       /\ IsPrefix(thoughtHistory, thoughtHistory')
       /\ thoughtHistory'[Len(thoughtHistory')].isRevision = Bool(TRUE)
       /\ thoughtHistory'[Len(thoughtHistory')].revisesThought
            = request'.arguments.f["revisesThought"]]_vars

\* a revision of step 1 was accepted while step 1 is in thoughtHistory
C15_Witness ==
  /\ Accepted
  /\ Len(thoughtHistory) = 2
  /\ thoughtHistory[1].thoughtNumber = Num(1)
  /\ thoughtHistory[1].isRevision = Undefined
  /\ thoughtHistory[2].isRevision = Bool(TRUE)
  /\ thoughtHistory[2].revisesThought = Num(1)

\* the renderings the call just handled has written to stderr
Renderings == Len(stderr') - Len(stderr)

\* the value of DISABLE_THOUGHT_LOGGING is "true" in some case of letters
LowerCasedTrue == env.t = "string" /\ toLowerCase(Chars(env.s)) = Chars("true")

\* ------------------------------------------------------------------------
\* C16  Logging toggle, as stated: no rendering is written when the toggle
\* value is "true"; for every other value, an absent one included, one
\* rendering is written per accepted step and none for a rejected payload.
\* ------------------------------------------------------------------------
C16_SuppressedIffTrue ==
  [][ProcessedNext =>
       Renderings = (IF response'.body = "snapshot" /\ env # Str("true")
                     THEN 1 ELSE 0)]_vars

\* C16 amended: the phase variant writes no rendering when the toggle value,
\* lower-cased, is "true"; in every other case, and always in the framework
\* variant, which reads no toggle, one rendering is written per accepted
\* step and none for a call that returns a failure.
C16_SuppressedIffLowerCasedTrue ==
  [][ProcessedNext =>
       Renderings = (IF /\ response'.body = "snapshot"
                        /\ ~(server = "jiminy" /\ LowerCasedTrue)
                     THEN 1 ELSE 0)]_vars

\* a step accepted without a rendering under DISABLE_THOUGHT_LOGGING=TRUE
C16_Witness ==
  /\ server = "jiminy"
  /\ env = Str("TRUE")
  /\ Accepted
  /\ stderr = <<>>

\* ------------------------------------------------------------------------
\* C17  Logging does not influence the result: from the same thoughtHistory
\* and branches, a phase-variant ledger with the opposite toggle returns the
\* same result for the payload and holds the same thoughtHistory and
\* branches after the call.
\* ------------------------------------------------------------------------
C17_LoggingDoesNotInfluence ==
  [][(ProcessedNext /\ server = "jiminy") =>
       LET other == processThought(server, ~disableThoughtLogging, thoughtHistory,
                                   branches, stderr, request'.arguments)
       IN /\ other.result = response'
          /\ other.thoughtHistory = thoughtHistory'
          /\ other.branches = branches']_vars

\* a handler has just run, as opposed to a request having arrived
HandledNext == Len(pending') < Len(pending)

\* ------------------------------------------------------------------------
\* C19  Run-to-completion: with several requests outstanding, the
\* thoughtHistoryLength of every success snapshot is the length of
\* thoughtHistory right after the push of the call that returns it, one more
\* than before the call, and no two success snapshots report the same
\* thoughtHistoryLength.
\* ------------------------------------------------------------------------
C19_RunToCompletion ==
  [][/\ (HandledNext /\ response'.body = "snapshot") =>
          /\ response'.thoughtHistoryLength = Len(thoughtHistory) + 1
          /\ response'.thoughtHistoryLength = Len(thoughtHistory')
     /\ \A i, j \in 1..Len(reported') :
          i # j => reported'[i] # reported'[j]]_vars

\* a second snapshot returned while another request is still outstanding
C19_Witness ==
  /\ Accepted
  /\ Len(pending) >= 1
  /\ Len(reported) = 2
  /\ Len(thoughtHistory) = 2

\* what the payload of the call just handled gets from a ledger that holds
\* nothing
OnEmptyLedger ==
  processThought(server, disableThoughtLogging, <<>>, <<>>, <<>>,
                 request'.arguments).result

\* ------------------------------------------------------------------------
\* C20  Acceptance is independent of ledger state: a payload is accepted
\* from the thoughtHistory and branches the ledger holds exactly when it is
\* accepted by a ledger that holds nothing, and a payload that is refused is
\* refused with the same error.
\* ------------------------------------------------------------------------
C20_AcceptanceIgnoresLedger ==
  [][ProcessedNext =>
       /\ (response'.body = "snapshot") = (OnEmptyLedger.body = "snapshot")
       /\ response'.body = "failure" =>
            (OnEmptyLedger.body = "failure" /\ OnEmptyLedger.error = response'.error)]_vars

\* a step accepted after a step that said no further step is needed
C20_Witness ==
  /\ Accepted
  /\ Len(thoughtHistory) = 2
  /\ thoughtHistory[1].nextThoughtNeeded = Bool(FALSE)
  /\ thoughtHistory[2].nextThoughtNeeded = Bool(TRUE)

\* ------------------------------------------------------------------------
\* C21  History order is acceptance order: the k-th accepted step is the
\* k-th entry of thoughtHistory, whatever its thoughtNumber: when a call
\* returns the k-th snapshot, thoughtHistory held k - 1 entries before it and
\* holds the step of that call as its k-th entry after it.
\* ------------------------------------------------------------------------
C21_HistoryOrderIsAcceptanceOrder ==
  [][(ProcessedNext /\ response'.body = "snapshot") =>
       /\ Len(thoughtHistory) = successes
       /\ Len(thoughtHistory') = successes'
       /\ thoughtHistory'[successes'].thought = request'.arguments.f["thought"]
       /\ thoughtHistory'[successes'].thoughtNumber
            = request'.arguments.f["thoughtNumber"]]_vars

\* the call just handled has stored a step
StoredNext == ProcessedNext /\ Len(thoughtHistory') = Len(thoughtHistory) + 1

\* the step the call just handled has stored
StoredStep == thoughtHistory'[Len(thoughtHistory')]

\* the stored step carries the named optional fields as the payload has them
PassThrough(fields) ==
  LET supplied == request'.arguments.f
  IN /\ "isRevision" \in fields => StoredStep.isRevision = supplied["isRevision"]
     /\ "revisesThought" \in fields => StoredStep.revisesThought = supplied["revisesThought"]
     /\ "branchFromThought" \in fields
          => StoredStep.branchFromThought = supplied["branchFromThought"]
     /\ "branchId" \in fields => StoredStep.branchId = supplied["branchId"]
     /\ "needsMoreThoughts" \in fields
          => StoredStep.needsMoreThoughts = supplied["needsMoreThoughts"]
     /\ "promptForNext" \in fields => StoredStep.promptForNext = supplied["promptForNext"]

\* ------------------------------------------------------------------------
\* C22  Optional fields pass through, as stated: in both variants the stored
\* step has each of isRevision, revisesThought, branchFromThought, branchId,
\* needsMoreThoughts and promptForNext absent when the payload has it absent
\* and with the payload's value otherwise.
\* ------------------------------------------------------------------------
C22_AllSixPassThrough ==
  [][StoredNext =>
       PassThrough({"isRevision", "revisesThought", "branchFromThought",
                    "branchId", "needsMoreThoughts", "promptForNext"})]_vars

\* C22 amended: isRevision, revisesThought, branchFromThought, branchId and
\* needsMoreThoughts pass through in both variants; promptForNext passes
\* through in the framework variant, and the phase variant, which has no such
\* field, stores none whatever the payload supplies.
C22_OptionalFieldsPassThrough ==
  [][StoredNext =>
       /\ PassThrough({"isRevision", "revisesThought", "branchFromThought",
                       "branchId", "needsMoreThoughts"})
       /\ IF server = "ethical"
          THEN PassThrough({"promptForNext"})
          ELSE StoredStep.promptForNext = Undefined]_vars

\* a step stored with isRevision false next to one stored with it absent
C22_Witness ==
  /\ Len(thoughtHistory) = 2
  /\ thoughtHistory[1].isRevision = Bool(FALSE)
  /\ thoughtHistory[2].isRevision = Undefined
  /\ Payload["isRevision"] = Undefined

\* ------------------------------------------------------------------------
\* C23  Branch index is monotone with one bucket per identifier:
\* thoughtHistory and branches are empty in a fresh ledger; no call removes a
\* branch identifier, shortens a bucket or changes an entry of one; no
\* identifier has two buckets; and a step filed under a branchId that has a
\* bucket goes to the end of that bucket, whatever its branchFromThought.
\* ------------------------------------------------------------------------
C23_BranchesMonotone ==
  /\ (thoughtHistory = <<>> /\ branches = <<>>)
  /\ [][/\ \A j \in 1..Len(branches) :
             /\ HasOwn(branches', branches[j].key)
             /\ IsPrefix(branches[j].bucket, Bucket(branches', branches[j].key))
        /\ \A i, j \in 1..Len(branches') :
             i # j => branches'[i].key # branches'[j].key
        /\ (/\ ProcessedNext
            /\ response'.body = "snapshot"
            /\ Truthy(request'.arguments.f["branchFromThought"])
            /\ Truthy(request'.arguments.f["branchId"])
            /\ HasOwn(branches, ToPropertyKey(request'.arguments.f["branchId"])))
           => LET k == ToPropertyKey(request'.arguments.f["branchId"])
              IN /\ Len(branches') = Len(branches)
                 /\ Bucket(branches', k)
                      = Append(Bucket(branches, k),
                               thoughtHistory'[Len(thoughtHistory')])]_vars

\* one bucket holding steps that branch from step 1 and from step 2
C23_Witness ==
  /\ Accepted
  /\ Len(branches) = 1
  /\ branches[1].key = "alt"
  /\ Len(branches[1].bucket) = 2
  /\ branches[1].bucket[1].branchFromThought = Num(1)
  /\ branches[1].bucket[2].branchFromThought = Num(2)

\* the fields of a stored step whose value is an object of the payload; a
\* JavaScript object is held by reference, so the step and the payload hold
\* the same object
SharedWithPayload(td) ==
  {k \in {"isRevision", "revisesThought", "branchFromThought", "branchId",
          "needsMoreThoughts", "promptForNext"} : td[k].t = "object"}

\* ------------------------------------------------------------------------
\* C24  Validator purity: the record validateThoughtData returns shares no
\* mutable state with the payload, so no step of thoughtHistory holds an
\* object that the caller's payload holds too.
\* ------------------------------------------------------------------------
C24_NoStateSharedWithPayload ==
  \A i \in 1..Len(thoughtHistory) : SharedWithPayload(thoughtHistory[i]) = {}

\* ------------------------------------------------------------------------
\* C25  Stored estimates are locally corrected and never rewritten: after
\* every call every step of thoughtHistory has thoughtNumber <=
\* totalThoughts, and the totalThoughts of the steps that were stored before
\* the call is what it was.
\* ------------------------------------------------------------------------
C25_StoredEstimatesLocal ==
  [][/\ \A i \in 1..Len(thoughtHistory') :
          thoughtHistory'[i].thoughtNumber.n <= thoughtHistory'[i].totalThoughts.n
     /\ \A i \in 1..Len(thoughtHistory) :
          /\ i <= Len(thoughtHistory')
          /\ thoughtHistory'[i].totalThoughts = thoughtHistory[i].totalThoughts]_vars

\* a step of index 3, estimate raised from 2 to 3, stored after a step that
\* keeps its estimate of 2
C25_Witness ==
  /\ Len(thoughtHistory) = 2
  /\ thoughtHistory[1].totalThoughts = Num(2)
  /\ thoughtHistory[2].thoughtNumber = Num(3)
  /\ thoughtHistory[2].totalThoughts = Num(3)
  /\ Payload["totalThoughts"] = Num(2)

\* the steps of thoughtHistory that name branch k, in the order of
\* thoughtHistory
NamingBranch(k) ==
  LET names(td) == /\ Truthy(td.branchFromThought)
                   /\ Truthy(td.branchId)
                   /\ ToPropertyKey(td.branchId) = k
  IN SelectSeq(thoughtHistory, names)

\* ------------------------------------------------------------------------
\* C26  Branch buckets replicate history: every bucket holds steps of
\* thoughtHistory only, in the order thoughtHistory has them, a step is in
\* the bucket of its own branchId and in no other, and every step filed in a
\* bucket is still in thoughtHistory.
\* ------------------------------------------------------------------------
C26_BucketsReplicateHistory ==
  \A j \in 1..Len(branches) :
    /\ branches[j].bucket = NamingBranch(branches[j].key)
    /\ \A e \in 1..Len(branches[j].bucket) :
         /\ \E i \in 1..Len(thoughtHistory) : thoughtHistory[i] = branches[j].bucket[e]
         /\ \A j2 \in 1..Len(branches) :
              (\E e2 \in 1..Len(branches[j2].bucket) :
                 branches[j2].bucket[e2] = branches[j].bucket[e]) => j2 = j

\* two steps of branch alt with a step of the main sequence between them
C26_Witness ==
  /\ Len(thoughtHistory) = 3
  /\ Len(branches) = 1
  /\ branches[1].bucket = <<thoughtHistory[1], thoughtHistory[3]>>
  /\ thoughtHistory[1] # thoughtHistory[3]
  /\ ~Truthy(thoughtHistory[2].branchId)

\* the thoughtHistoryLength of the last snapshot returned so far, 0 if none
LastReported == IF reported = <<>> THEN 0 ELSE reported[Len(reported)]

\* ------------------------------------------------------------------------
\* C27  The ledger keeps serving after a failure: the call that follows a
\* failure result, given a payload that passes the validator and sets no
\* optional field, returns a snapshot whose thoughtHistoryLength is one more
\* than that of the last snapshot before the failure, or 1 if there was
\* none.
\* ------------------------------------------------------------------------
C27_ServesAfterFailure ==
  [][(/\ Rejected
      /\ ProcessedNext
      /\ request'.arguments = Obj(Base(server)))
       => /\ response'.body = "snapshot"
          /\ response'.thoughtHistoryLength = LastReported + 1]_vars

\* ------------------------------------------------------------------------
\* C28  Unknown tool: a request whose tool name is not the name the server
\* registers gets an error result saying so, with isError set, and leaves
\* thoughtHistory, branches and stderr as they were.
\* ------------------------------------------------------------------------
C28_UnknownTool ==
  [][(request'.name # ToolName(server)) =>
       /\ response'.body = "text"
       /\ response'.isError
       /\ response'.text = "Unknown tool"
       /\ response'.name = request'.name
       /\ thoughtHistory' = thoughtHistory
       /\ branches' = branches
       /\ stderr' = stderr
       /\ successes' = successes]_vars

\* the phase variant called under the framework variant's tool name, after
\* it has stored a step
C28_Witness ==
  /\ server = "jiminy"
  /\ request.name = ToolName("ethical")
  /\ request.arguments = Obj(Base("jiminy"))
  /\ response.body = "text"
  /\ response.isError
  /\ Len(thoughtHistory) = 1

\* the place of a judgment in the order absent, uniformly affirmative,
\* mixed/ambiguous, at least one dissent
JudgmentRank(j) ==
  CASE j = Null -> 0
    [] j = UniformlyAffirmative -> 1
    [] j = MixedAmbiguous -> 2
    [] j = AtLeastOneDissent -> 3
    [] OTHER -> 4

\* the judgment of the last snapshot returned so far: that of the steps
\* thoughtHistory held when it was returned
LastJudgment == evaluateJudgment(SubSeq(thoughtHistory, 1, LastReported))

\* ------------------------------------------------------------------------
\* C29  Judgment only moves forward: in the framework variant the judgment
\* of a snapshot is never before the judgment of the snapshot returned
\* before it in the order absent, uniformly affirmative, mixed/ambiguous, at
\* least one dissent.
\* ------------------------------------------------------------------------
C29_JudgmentMovesForward ==
  [][(/\ server = "ethical"
      /\ ProcessedNext
      /\ response'.body = "snapshot"
      /\ reported # <<>>)
       => /\ JudgmentRank(response'.judgment) <= 3
          /\ JudgmentRank(LastJudgment) <= JudgmentRank(response'.judgment)]_vars

\* an affirmative judgment of two steps followed by a dissent
C29_Witness ==
  /\ Accepted
  /\ server = "ethical"
  /\ reported = <<1, 2, 3>>
  /\ evaluateJudgment(SubSeq(thoughtHistory, 1, 2)) = UniformlyAffirmative
  /\ response.judgment = AtLeastOneDissent

\* ------------------------------------------------------------------------
\* C30  Negative marker implies affirmative marker: a step whose text
\* contains "unacceptable" contains "acceptable" too; with two or more
\* qualifying steps that all contain "unacceptable" the judgment is uniformly
\* affirmative, and the judgment is at least one dissent only when some
\* qualifying step contains neither marker.
\* ------------------------------------------------------------------------
C30_NegativeImpliesAffirmative ==
  (Accepted /\ server = "ethical") =>
    /\ \A i \in 1..Len(thoughtHistory) :
         HasMarker(i, "unacceptable") => HasMarker(i, "acceptable")
    /\ (/\ Cardinality(Qualifying) >= 2
        /\ \A i \in Qualifying : HasMarker(i, "unacceptable"))
         => response.judgment = UniformlyAffirmative
    /\ response.judgment = AtLeastOneDissent
         => \E i \in Qualifying :
              ~HasMarker(i, "acceptable") /\ ~HasMarker(i, "unacceptable")

\* three qualifying steps that all say unacceptable, judged affirmative
C30_Witness ==
  /\ Accepted
  /\ server = "ethical"
  /\ Cardinality(Qualifying) = 3
  /\ \A i \in Qualifying :
       thoughtHistory[i].thought \in {Str("unacceptable"), Str("UNACCEPTABLE")}
  /\ response.judgment = UniformlyAffirmative

====
